---- MODULE Spec2Model ----
(***************************************************************************)
(* Backup catalog, backup creation and restore of wrtcli.                  *)
(*                                                                         *)
(* The model follows src/src/config.rs (ConfigManager: load_backup_meta,   *)
(* save_backup_meta, add_backup, remove_backup_file), src/src/models.rs    *)
(* (BackupMeta) and src/src/commands.rs (create_backup, remove_backup,     *)
(* restore_backup).                                                        *)
(* One device is modelled; its backup directory holds the archive files    *)
(* and metadata.json, the persisted catalog.  Every command line           *)
(* invocation is a process that runs one operation, one system call or     *)
(* device round trip per step, so that each `?` of the source is a point   *)
(* where the operation can end with an error.                              *)
(***************************************************************************)
EXTENDS Integers, Sequences, FiniteSets, TLC

\* ------------------------------------------------------------------ bounds
\* Last instant of the wall clock; no timestamp is taken after it.
MaxClock == 4
\* Clock instants per second: the resolution lost by formatting an id.
TicksPerSec == 2
\* Largest advance of the clock between two readings of Local::now().
MaxStep == 2
\* Number of command line invocations in one behaviour.
MaxOps == 3
\* Number of invocations in one behaviour in which two may run at once.
MaxConcOps == 2
\* Number of create_backup calls over the remote shell in one behaviour.
MaxUbusOps == 1
\* Largest body, in bytes, the device returns for a LuCI backup request.
MaxBody == 1

\* The command line invocations that may exist.
Procs == {1, 2}

\* ------------------------------------------------- library constants (units)
\* Units a tar header takes in the archive stream (tar::Header::new_gnu).
TarHeaderLen == 1
\* Units of one section's non-empty output (content.len()).
ContentLen == 1
\* Units Builder::finish appends to the stream (the end-of-archive marker).
TarFooterLen == 1
\* Units the gzip encoder writes only when it is finished (CRC and length).
GzTrailerLen == 1

\* ------------------------------------------------------------ pure helpers
\* timestamp.format("%Y%m%d_%H%M%S"): the instant cut to second precision.
FormatId(t) == t \div TicksPerSec

\* format!("{}_full_backup.tar.gz", &id)
Filename(id) == <<id, "_full_backup.tar.gz">>

Ids == 0..(MaxClock \div TicksPerSec)

\* BackupInfo of models.rs: device_name, description and backup_type are the
\* same for every record of the one device modelled and are left out.
BackupInfo(id, filename, created_at, backup_method, size) ==
    [id |-> id, filename |-> filename, created_at |-> created_at,
     backup_method |-> backup_method, size |-> size]

\* BackupMeta::new
BackupMetaNew == << >>

\* Mutant of MetaAddBackup: the record is inserted at the front.
MetaAddBackup_Front(backups, backup) == <<backup>> \o backups

\* BackupMeta::add_backup: self.backups.push(backup)
MetaAddBackup(backups, backup) == Append(backups, backup)

\* self.backups.iter().position(|b| b.id == id): 0 when there is none.
Position(backups, id) ==
    LET hits == {i \in 1..Len(backups) : backups[i].id = id}
    IN  IF hits = {} THEN 0
        ELSE CHOOSE i \in hits : \A j \in hits : i <= j

\* BackupMeta::get_backup: the first record with that id, as an Option
\* (the empty sequence is None).
get_backup(backups, id) ==
    IF Position(backups, id) = 0 THEN << >>
    ELSE << backups[Position(backups, id)] >>

\* BackupMeta::remove_backup: removes the first record with that id.
remove_backup(backups, id) ==
    LET pos == Position(backups, id)
    IN  IF pos = 0 THEN backups
        ELSE [i \in 1..(Len(backups) - 1) |->
                 IF i < pos THEN backups[i] ELSE backups[i + 1]]

\* ------------------------------------------------------------------- state
VARIABLES
    clock,      \* the wall clock, in instants
    dirFiles,   \* the archive files of the backup directory: name -> file
    metaFile,   \* metadata.json: [state, backups]
    procs,      \* the invocations: process -> its position and locals
    nops,       \* invocations started so far
    addLog,     \* history: the records returned by successful add_backup calls
    removed     \* history: some remove_backup_file call has deleted a file

vars == <<clock, dirFiles, metaFile, procs, nops, addLog, removed>>

\* A file of the backup directory: its length and the archive it holds,
\* named by the instant its record was stamped (unique per add_backup call).
DirFile(size, ino) == [size |-> size, ino |-> ino]

DirPut(dir, name, file) ==
    [n \in (DOMAIN dir) \cup {name} |-> IF n = name THEN file ELSE dir[n]]

DirDel(dir, name) == [n \in (DOMAIN dir) \ {name} |-> dir[n]]

NoMetaFile == [state |-> "absent", backups |-> << >>]

IdleProc ==
    [pc |-> "idle", op |-> "none", use_ubus |-> FALSE, backup_id |-> 0,
     meta |-> << >>, info |-> << >>,
     tmp |-> [linked |-> FALSE, size |-> 0],
     enc |-> [open |-> FALSE, pending |-> 0],
     idx |-> 0, tried |-> << >>, good |-> << >>, entries |-> << >>,
     lastOut |-> "none",
     reqs |-> << >>, auth |-> "none",
     content |-> 0, data |-> << >>,
     upResp |-> "none", rbResp |-> "none", report |-> "none",
     result |-> "none", failedAt |-> "none",
     preMeta |-> NoMetaFile, preDir |-> << >>]

Init ==
    /\ clock = 0
    /\ dirFiles = << >>
    /\ metaFile = NoMetaFile
    /\ procs = [p \in Procs |-> IdleProc]
    /\ nops = 0
    /\ addLog = << >>
    /\ removed = FALSE

\* ------------------------------------------------- the persisted catalog
\* ConfigManager::load_backup_meta.  io is the outcome of the file system
\* calls (get_backup_dir's create_dir_all, read_to_string).  A missing file
\* is the empty catalog; a file that does not parse is an error.
load_backup_meta(mf, io) ==
    IF io # "ok" THEN [ok |-> FALSE, backups |-> << >>]
    ELSE IF mf.state = "absent" THEN [ok |-> TRUE, backups |-> BackupMetaNew]
    ELSE IF mf.state = "corrupt" THEN [ok |-> FALSE, backups |-> << >>]
    ELSE [ok |-> TRUE, backups |-> mf.backups]

\* The outcomes of ConfigManager::save_backup_meta: "create_err" is an error
\* before the file is touched (get_backup_dir, to_string_pretty,
\* File::create); "write_err" is write_all failing after File::create has
\* truncated the file.
SaveOutcomes == {"ok", "create_err", "write_err"}

\* ConfigManager::save_backup_meta: the file after the call.
save_backup_meta(mf, backups, io) ==
    IF io = "ok" THEN [state |-> "valid", backups |-> backups]
    ELSE IF io = "create_err" THEN mf
    ELSE [state |-> "corrupt", backups |-> << >>]

\* list_backups / show_backup of commands.rs read the catalog the same way.
list_backups == load_backup_meta(metaFile, "ok")

show_backup(id) ==
    IF list_backups.ok THEN get_backup(list_backups.backups, id) ELSE << >>

\* ---------------------------------------------------------------- process
AllIdle == \A q \in Procs : procs[q].pc = "idle"

At(p, label) == procs[p].pc = label

Become(p, pr) == procs' = [procs EXCEPT ![p] = pr]

\* An error return (`?` or bail!) inside create_backup: the locals are
\* dropped on the way out.
Fail(pr, at) == [pr EXCEPT !.result = "err", !.failedAt = at, !.pc = "drop"]

\* An error return of remove_backup_file: nothing to drop.
FailRemove(pr, at) ==
    [pr EXCEPT !.result = "err", !.failedAt = at, !.pc = "done"]

\* create_backup up to the protocol branch: ConfigManager::new, get_device,
\* Client::builder, NamedTempFile::new.
CreateStart(p, use_ubus) ==
    /\ At(p, "idle")
    /\ nops' = nops + 1
    /\ \E io \in {"ok", "err"} :
          LET pr == [IdleProc EXCEPT !.op = "create", !.use_ubus = use_ubus,
                                     !.preMeta = metaFile, !.preDir = dirFiles]
          IN  IF io = "ok"
              THEN Become(p, [pr EXCEPT
                       !.tmp = [linked |-> TRUE, size |-> 0],
                       !.pc = IF use_ubus THEN "ubus_open" ELSE "luci_auth"])
              ELSE Become(p, [pr EXCEPT !.result = "err",
                                        !.failedAt = "setup", !.pc = "done"])
    /\ UNCHANGED <<clock, dirFiles, metaFile, addLog, removed>>

\* What an authentication request can come to: the request or the reading
\* of its JSON body fails, the body holds no token, or it holds one.
AuthOutcomes == {"send_err", "no_token", "token"}

\* get_luci_session: one POST to /cgi-bin/luci/rpc/auth; the token is
\* data["result"] when it is a string.  The locals after the call.
get_luci_session(pr, io) ==
    [pr EXCEPT !.reqs = Append(@, "auth"), !.auth = io]

\* Mutant of LuciAuth: a response without a token is not an error and the
\* backup request is sent all the same.
LuciAuth_NoTokenProceeds(p) ==
    /\ At(p, "luci_auth")
    /\ \E io \in AuthOutcomes :
          LET pr == get_luci_session(procs[p], io)
          IN  IF io \in {"token", "no_token"}
              THEN Become(p, [pr EXCEPT !.pc = "luci_get"])
              ELSE Become(p, Fail(pr, "auth"))
    /\ UNCHANGED <<clock, dirFiles, metaFile, nops, addLog, removed>>

\* let session = get_luci_session(&client, &device).await?; in create_backup
LuciAuth(p) ==
    /\ At(p, "luci_auth")
    /\ \E io \in AuthOutcomes :
          LET pr == get_luci_session(procs[p], io)
          IN  IF io = "token"
              THEN Become(p, [pr EXCEPT !.pc = "luci_get"])
              ELSE Become(p, Fail(pr, "auth"))
    /\ UNCHANGED <<clock, dirFiles, metaFile, nops, addLog, removed>>

\* The GET of .../flashops/backup and response.text(): the body is taken as
\* the archive, whatever it is.
LuciGet(p) ==
    /\ At(p, "luci_get")
    /\ \E io \in {"ok", "err"}, n \in 0..MaxBody :
          LET pr == [procs[p] EXCEPT !.reqs = Append(@, "backup_get")]
          IN  IF io = "ok"
              THEN Become(p, [pr EXCEPT !.content = n, !.pc = "luci_write"])
              ELSE Become(p, Fail(pr, "collect"))
    /\ UNCHANGED <<clock, dirFiles, metaFile, nops, addLog, removed>>

\* temp_file.reopen, write_all, sync_all.
LuciWrite(p) ==
    /\ At(p, "luci_write")
    /\ \E io \in {"ok", "err"} :
          IF io = "ok"
          THEN Become(p, [procs[p] EXCEPT !.tmp.size = procs[p].content,
                                          !.pc = "add_load"])
          ELSE Become(p, Fail(procs[p], "write"))
    /\ UNCHANGED <<clock, dirFiles, metaFile, nops, addLog, removed>>

\* ------------------------------------- create_backup over the remote shell
\* let config_files = vec!["system", "wireless", "network", "dhcp", "firewall"];
config_files == <<"system", "wireless", "network", "dhcp", "firewall">>

\* What one read over the shell can come to: channel_session() failing, one
\* of exec, read_to_string, wait_close, exit_status failing, a non-zero exit
\* status, empty output, or content.
ReadOutcomes ==
    {"chan_err", "exec_err", "read_err", "close_err", "status_err",
     "nonzero", "empty", "content"}

\* The outcomes the source leaves with `?`.
ReadErrors == {"exec_err", "read_err", "close_err", "status_err"}

\* The outcomes after which the source goes on without an archive entry:
\* `if let Ok(..)` not matching, and the else branch of the status test.
ReadSkips == {"chan_err", "nonzero", "empty"}

\* A write of n units to the gzip encoder.  The encoder hands what it held
\* from earlier writes to the file when dump is TRUE and keeps it otherwise;
\* the units of this write stay in the encoder either way.
GzWrite(pr, n, dump) ==
    IF dump
    THEN [pr EXCEPT !.tmp.size = @ + pr.enc.pending, !.enc.pending = n]
    ELSE [pr EXCEPT !.enc.pending = @ + n]

\* GzEncoder::new(temp_file.reopen()?, ..), Builder::new, TcpStream::connect,
\* Session::new, handshake, userauth_password.
UbusOpen(p) ==
    /\ At(p, "ubus_open")
    /\ \E io \in {"ok", "reopen_err", "ssh_err"} :
          LET opened == [procs[p] EXCEPT !.enc = [open |-> TRUE, pending |-> 0]]
          IN  IF io = "ok"
              THEN Become(p, [opened EXCEPT !.idx = 1, !.pc = "section"])
              ELSE IF io = "ssh_err"
              THEN Become(p, Fail(opened, "connect"))
              ELSE Become(p, Fail(procs[p], "connect"))
    /\ UNCHANGED <<clock, dirFiles, metaFile, nops, addLog, removed>>

\* Mutant of ReadInto: a non-zero exit status is returned as an error.
ReadInto_NonZeroFatal(pr, name, out, append, dump, next) ==
    LET seen == [pr EXCEPT !.tried = Append(@, name), !.lastOut = out,
                           !.good = IF out = "content" THEN Append(@, name)
                                    ELSE @]
    IN  IF out \in ReadErrors \cup {"nonzero"} THEN Fail(seen, "read")
        ELSE IF out \in ReadSkips THEN [seen EXCEPT !.pc = next]
        ELSE IF append = "err" THEN Fail(seen, "append")
        ELSE [GzWrite(seen, TarHeaderLen + ContentLen, dump) EXCEPT
                 !.entries = Append(@, name), !.pc = next]

\* Mutant of ReadInto: the output is appended without the test that it is
\* not empty.
ReadInto_EmptyAppended(pr, name, out, append, dump, next) ==
    LET seen == [pr EXCEPT !.tried = Append(@, name), !.lastOut = out,
                           !.good = IF out = "content" THEN Append(@, name)
                                    ELSE @]
    IN  IF out \in ReadErrors THEN Fail(seen, "read")
        ELSE IF out \in ReadSkips \ {"empty"} THEN [seen EXCEPT !.pc = next]
        ELSE IF append = "err" THEN Fail(seen, "append")
        ELSE [GzWrite(seen, TarHeaderLen + ContentLen, dump) EXCEPT
                 !.entries = Append(@, name), !.pc = next]

\* One read over the shell and, with content, archive.append_data(..)?:
\* tried is the reads made, good the reads that came back with exit status 0
\* and output that is not empty, entries the names appended to the archive.
\* The locals after the read, given the entry name and the label that follows.
ReadInto(pr, name, out, append, dump, next) ==
    LET seen == [pr EXCEPT !.tried = Append(@, name), !.lastOut = out,
                           !.good = IF out = "content" THEN Append(@, name)
                                    ELSE @]
    IN  IF out \in ReadErrors THEN Fail(seen, "read")
        ELSE IF out \in ReadSkips THEN [seen EXCEPT !.pc = next]
        ELSE IF append = "err" THEN Fail(seen, "append")
        ELSE [GzWrite(seen, TarHeaderLen + ContentLen, dump) EXCEPT
                 !.entries = Append(@, name), !.pc = next]

\* One turn of `for config_name in config_files`.
Section(p) ==
    /\ At(p, "section")
    /\ \E out \in ReadOutcomes, append \in {"ok", "err"}, dump \in BOOLEAN :
          LET pr   == procs[p]
              next == IF pr.idx = Len(config_files) THEN "board" ELSE "section"
              after == ReadInto(pr, config_files[pr.idx], out, append, dump, next)
          IN  Become(p, [after EXCEPT !.idx = pr.idx + 1])
    /\ UNCHANGED <<clock, dirFiles, metaFile, nops, addLog, removed>>

\* The read of /etc/board.json, appended as system_info.json.
Board(p) ==
    /\ At(p, "board")
    /\ \E out \in ReadOutcomes, append \in {"ok", "err"}, dump \in BOOLEAN :
          Become(p, ReadInto(procs[p], "system_info.json", out, append, dump,
                             "finish"))
    /\ UNCHANGED <<clock, dirFiles, metaFile, nops, addLog, removed>>

\* archive.finish()?: the tar builder writes its end-of-archive marker to
\* the encoder.  The encoder itself is not finished.
ArchiveFinish(p) ==
    /\ At(p, "finish")
    /\ \E io \in {"ok", "err"}, dump \in BOOLEAN :
          IF io = "ok"
          THEN Become(p, [GzWrite(procs[p], TarFooterLen, dump) EXCEPT
                             !.pc = "sync"])
          ELSE Become(p, Fail(procs[p], "finish"))
    /\ UNCHANGED <<clock, dirFiles, metaFile, nops, addLog, removed>>

\* temp_file.as_file().sync_all()?: what is in the file reaches the disk.
SyncAll(p) ==
    /\ At(p, "sync")
    /\ \E io \in {"ok", "err"} :
          IF io = "ok"
          THEN Become(p, [procs[p] EXCEPT !.pc = "add_load"])
          ELSE Become(p, Fail(procs[p], "sync"))
    /\ UNCHANGED <<clock, dirFiles, metaFile, nops, addLog, removed>>

\* ---------------------------------------------- ConfigManager::add_backup
\* let mut meta = self.load_backup_meta(device_name)?;
AddLoad(p) ==
    /\ At(p, "add_load")
    /\ \E io \in {"ok", "err"} :
          LET r == load_backup_meta(metaFile, io)
          IN  IF r.ok
              THEN Become(p, [procs[p] EXCEPT !.meta = r.backups,
                                              !.pc = "add_info"])
              ELSE Become(p, Fail(procs[p], "load"))
    /\ UNCHANGED <<clock, dirFiles, metaFile, nops, addLog, removed>>

\* Local::now(), the id and filename made from it, and the BackupInfo with
\* size: fs::metadata(&backup_path)?.len().
AddInfo(p) ==
    /\ At(p, "add_info")
    /\ \E d \in 1..MaxStep, io \in {"ok", "err"} :
          /\ clock + d <= MaxClock
          /\ clock' = clock + d
          /\ LET id == FormatId(clock')
                 info == BackupInfo(id, Filename(id), clock',
                                    IF procs[p].use_ubus THEN "ubus" ELSE "luci",
                                    procs[p].tmp.size)
             IN  IF io = "ok" /\ procs[p].tmp.linked
                 THEN Become(p, [procs[p] EXCEPT !.info = <<info>>,
                                                 !.pc = "add_rename"])
                 ELSE Become(p, Fail(procs[p], "stat"))
    /\ UNCHANGED <<dirFiles, metaFile, nops, addLog, removed>>

\* Mutant of AddRename: the result of fs::rename is not looked at.
AddRename_Unchecked(p) ==
    /\ At(p, "add_rename")
    /\ \E io \in {"ok", "err"} :
          LET info == procs[p].info[1]
          IN  IF io = "ok" /\ procs[p].tmp.linked
              THEN /\ dirFiles' = DirPut(dirFiles, info.filename,
                                     DirFile(procs[p].tmp.size, info.created_at))
                   /\ Become(p, [procs[p] EXCEPT !.tmp.linked = FALSE,
                                                 !.pc = "add_push"])
              ELSE /\ UNCHANGED dirFiles
                   /\ Become(p, [procs[p] EXCEPT !.pc = "add_push"])
    /\ UNCHANGED <<clock, metaFile, nops, addLog, removed>>

\* get_backup_dir and fs::rename(backup_path, dest_path)?: the archive takes
\* the place of whatever file had that name.
AddRename(p) ==
    /\ At(p, "add_rename")
    /\ \E io \in {"ok", "err"} :
          LET info == procs[p].info[1]
          IN  IF io = "ok" /\ procs[p].tmp.linked
              THEN /\ dirFiles' = DirPut(dirFiles, info.filename,
                                     DirFile(procs[p].tmp.size, info.created_at))
                   /\ Become(p, [procs[p] EXCEPT !.tmp.linked = FALSE,
                                                 !.pc = "add_push"])
              ELSE /\ UNCHANGED dirFiles
                   /\ Become(p, Fail(procs[p], "move"))
    /\ UNCHANGED <<clock, metaFile, nops, addLog, removed>>

\* meta.add_backup(backup_info.clone());
AddPush(p) ==
    /\ At(p, "add_push")
    /\ Become(p, [procs[p] EXCEPT
           !.meta = MetaAddBackup(@, procs[p].info[1]), !.pc = "add_save"])
    /\ UNCHANGED <<clock, dirFiles, metaFile, nops, addLog, removed>>

\* Mutant of AddSave: the catalog is read again when it is saved, and the
\* record is appended to what the file holds then.
AddSave_Reload(p) ==
    /\ At(p, "add_save")
    /\ \E io \in SaveOutcomes :
          /\ metaFile' = save_backup_meta(metaFile,
                             MetaAddBackup(metaFile.backups, procs[p].info[1]),
                             io)
          /\ IF io = "ok"
             THEN /\ addLog' = Append(addLog, procs[p].info[1])
                  /\ Become(p, [procs[p] EXCEPT !.result = "ok", !.pc = "drop"])
             ELSE /\ UNCHANGED addLog
                  /\ Become(p, Fail(procs[p], "persist"))
    /\ UNCHANGED <<clock, dirFiles, nops, removed>>

\* self.save_backup_meta(device_name, &meta)?; Ok(backup_info)
AddSave(p) ==
    /\ At(p, "add_save")
    /\ \E io \in SaveOutcomes :
          /\ metaFile' = save_backup_meta(metaFile, procs[p].meta, io)
          /\ IF io = "ok"
             THEN /\ addLog' = Append(addLog, procs[p].info[1])
                  /\ Become(p, [procs[p] EXCEPT !.result = "ok", !.pc = "drop"])
             ELSE /\ UNCHANGED addLog
                  /\ Become(p, Fail(procs[p], "persist"))
    /\ UNCHANGED <<clock, dirFiles, nops, removed>>

\* The end of create_backup, on every path: the tar builder and its gzip
\* encoder are dropped, which writes what the encoder still holds, and its
\* trailer, to the file it was opened on, wherever that file is now; then
\* the NamedTempFile is dropped, which unlinks its path if it is still there.
Drop(p) ==
    /\ At(p, "drop")
    /\ LET pr   == procs[p]
           rest == pr.enc.pending + GzTrailerLen
           name == IF pr.info = << >> THEN Filename(0) ELSE pr.info[1].filename
           mine == /\ pr.info # << >>
                   /\ ~pr.tmp.linked
                   /\ name \in DOMAIN dirFiles
                   /\ dirFiles[name].ino = pr.info[1].created_at
       IN  /\ dirFiles' = IF pr.enc.open /\ mine
                          THEN DirPut(dirFiles, name,
                                   DirFile(dirFiles[name].size + rest,
                                           dirFiles[name].ino))
                          ELSE dirFiles
           /\ Become(p, [pr EXCEPT
                  !.enc = [open |-> FALSE, pending |-> 0],
                  !.tmp = [linked |-> FALSE, size |-> 0],
                  !.pc = "done"])
    /\ UNCHANGED <<clock, metaFile, nops, addLog, removed>>

\* The invocation exits.
Return(p) ==
    /\ At(p, "done")
    /\ Become(p, IdleProc)
    /\ UNCHANGED <<clock, dirFiles, metaFile, nops, addLog, removed>>

\* ---------------------------------------- ConfigManager::remove_backup_file
\* commands.rs remove_backup: ConfigManager::new, then remove_backup_file.
RemoveStart(p) ==
    /\ At(p, "idle")
    /\ nops' = nops + 1
    /\ \E id \in Ids :
          Become(p, [IdleProc EXCEPT !.op = "remove", !.backup_id = id,
                                     !.preMeta = metaFile, !.preDir = dirFiles,
                                     !.pc = "rem_load"])
    /\ UNCHANGED <<clock, dirFiles, metaFile, addLog, removed>>

\* let mut meta = self.load_backup_meta(device_name)?;
RemLoad(p) ==
    /\ At(p, "rem_load")
    /\ \E io \in {"ok", "err"} :
          LET r == load_backup_meta(metaFile, io)
          IN  IF r.ok
              THEN Become(p, [procs[p] EXCEPT !.meta = r.backups,
                                              !.pc = "rem_get"])
              ELSE Become(p, FailRemove(procs[p], "load"))
    /\ UNCHANGED <<clock, dirFiles, metaFile, nops, addLog, removed>>

\* if let Some(backup) = meta.get_backup(backup_id) ... else bail!
RemGet(p) ==
    /\ At(p, "rem_get")
    /\ LET found == get_backup(procs[p].meta, procs[p].backup_id)
       IN  IF found = << >>
           THEN Become(p, FailRemove(procs[p], "not_found"))
           ELSE Become(p, [procs[p] EXCEPT !.info = found,
                                           !.pc = "rem_delete"])
    /\ UNCHANGED <<clock, dirFiles, metaFile, nops, addLog, removed>>

\* Mutant of RemDelete: the entry is removed and the catalog saved before the
\* file is deleted.
RemDelete_SaveFirst(p) ==
    /\ At(p, "rem_delete")
    /\ metaFile' = save_backup_meta(metaFile,
                       remove_backup(procs[p].meta, procs[p].backup_id), "ok")
    /\ \E io \in {"ok", "err"} :
          LET name == procs[p].info[1].filename
          IN  IF io = "ok" /\ name \in DOMAIN dirFiles
              THEN /\ dirFiles' = DirDel(dirFiles, name)
                   /\ removed' = TRUE
                   /\ Become(p, [procs[p] EXCEPT !.pc = "rem_save"])
              ELSE /\ UNCHANGED <<dirFiles, removed>>
                   /\ Become(p, FailRemove(procs[p], "delete"))
    /\ UNCHANGED <<clock, nops, addLog>>

\* get_backup_dir and fs::remove_file(&backup_path).context(..)?
RemDelete(p) ==
    /\ At(p, "rem_delete")
    /\ \E io \in {"ok", "err"} :
          LET name == procs[p].info[1].filename
          IN  IF io = "ok" /\ name \in DOMAIN dirFiles
              THEN /\ dirFiles' = DirDel(dirFiles, name)
                   /\ removed' = TRUE
                   /\ Become(p, [procs[p] EXCEPT !.pc = "rem_save"])
              ELSE /\ UNCHANGED <<dirFiles, removed>>
                   /\ Become(p, FailRemove(procs[p], "delete"))
    /\ UNCHANGED <<clock, metaFile, nops, addLog>>

\* meta.remove_backup(backup_id); self.save_backup_meta(device_name, &meta)?;
RemSave(p) ==
    /\ At(p, "rem_save")
    /\ \E io \in SaveOutcomes :
          LET meta == remove_backup(procs[p].meta, procs[p].backup_id)
          IN  /\ metaFile' = save_backup_meta(metaFile, meta, io)
              /\ IF io = "ok"
                 THEN Become(p, [procs[p] EXCEPT !.meta = meta,
                                     !.result = "ok", !.pc = "done"])
                 ELSE Become(p, FailRemove([procs[p] EXCEPT !.meta = meta],
                                           "persist"))
    /\ UNCHANGED <<clock, dirFiles, nops, addLog, removed>>

\* ------------------------------------------------------------ restore_backup
\* What a request to the device can come to: no response ("send_err", the
\* error send() returns), a response with an error status, or a response
\* with a success status.  The source does not look at the status.
Responses == {"send_err", "http_err", "ok"}

\* The error a failed send() returns names the request's URL.
SendError(url) == <<"error sending request for url", url>>

\* An error return of restore_backup, with the error the caller gets.
FailRestore(pr, at, err) ==
    [pr EXCEPT !.result = "err", !.failedAt = at, !.report = err, !.pc = "done"]

\* restore_backup up to the catalog: ConfigManager::new, get_device.
RestoreStart(p, use_ubus) ==
    /\ At(p, "idle")
    /\ nops' = nops + 1
    /\ \E id \in Ids, io \in {"ok", "err"} :
          LET pr == [IdleProc EXCEPT !.op = "restore", !.use_ubus = use_ubus,
                                     !.backup_id = id,
                                     !.preMeta = metaFile, !.preDir = dirFiles]
          IN  IF io = "ok"
              THEN Become(p, [pr EXCEPT !.pc = "rst_load"])
              ELSE Become(p, FailRestore(pr, "setup", <<"setup">>))
    /\ UNCHANGED <<clock, dirFiles, metaFile, addLog, removed>>

\* load_backup_meta(name)?, meta.get_backup(backup_id).context(..)?,
\* Client::builder().build()?
RstLoad(p) ==
    /\ At(p, "rst_load")
    /\ \E io \in {"ok", "err"} :
          LET r     == load_backup_meta(metaFile, io)
              found == get_backup(r.backups, procs[p].backup_id)
          IN  IF ~r.ok
              THEN Become(p, FailRestore(procs[p], "load", <<"metadata">>))
              ELSE IF found = << >>
              THEN Become(p, FailRestore(procs[p], "not_found",
                                         <<"Backup not found">>))
              ELSE Become(p, [procs[p] EXCEPT !.meta = r.backups,
                                  !.info = found, !.pc = "rst_read"])
    /\ UNCHANGED <<clock, dirFiles, metaFile, nops, addLog, removed>>

\* Mutant of RstRead: a file that cannot be read is taken as an empty archive.
RstRead_Unchecked(p) ==
    /\ At(p, "rst_read")
    /\ \E io \in {"ok", "err"} :
          LET name == procs[p].info[1].filename
              next == IF procs[p].use_ubus THEN "rst_login" ELSE "rst_auth"
          IN  IF io = "ok" /\ name \in DOMAIN dirFiles
              THEN Become(p, [procs[p] EXCEPT !.data = <<dirFiles[name]>>,
                                              !.pc = next])
              ELSE Become(p, [procs[p] EXCEPT !.pc = next])
    /\ UNCHANGED <<clock, dirFiles, metaFile, nops, addLog, removed>>

\* let backup_data = fs::read(&backup_path)?;
RstRead(p) ==
    /\ At(p, "rst_read")
    /\ \E io \in {"ok", "err"} :
          LET name == procs[p].info[1].filename
          IN  IF io = "ok" /\ name \in DOMAIN dirFiles
              THEN Become(p, [procs[p] EXCEPT
                       !.data = <<dirFiles[name]>>,
                       !.pc = IF procs[p].use_ubus THEN "rst_login"
                              ELSE "rst_auth"])
              ELSE Become(p, FailRestore(procs[p], "read_file", <<"io">>))
    /\ UNCHANGED <<clock, dirFiles, metaFile, nops, addLog, removed>>

\* The error of an authentication that gave no token.
AuthError(io) ==
    IF io = "send_err" THEN SendError("auth")
    ELSE <<"Failed to get session token">>

\* The session login POST to the ubus URL; the token is
\* login_data["result"][1]["ubus_rpc_session"] when it is a string.
RstLogin(p) ==
    /\ At(p, "rst_login")
    /\ \E io \in AuthOutcomes :
          LET pr == [procs[p] EXCEPT !.reqs = Append(@, "auth"), !.auth = io]
          IN  IF io = "token"
              THEN Become(p, [pr EXCEPT !.pc = "rst_rpc"])
              ELSE Become(p, FailRestore(pr, "auth", AuthError(io)))
    /\ UNCHANGED <<clock, dirFiles, metaFile, nops, addLog, removed>>

\* The system restore call with the archive bytes, then the success message.
RstRpc(p) ==
    /\ At(p, "rst_rpc")
    /\ \E resp \in Responses :
          LET pr == [procs[p] EXCEPT !.reqs = Append(@, "restore"),
                                     !.upResp = resp]
          IN  IF resp = "send_err"
              THEN Become(p, FailRestore(pr, "restore", SendError("ubus")))
              ELSE Become(p, [pr EXCEPT !.result = "ok", !.report = <<"ok">>,
                                        !.pc = "done"])
    /\ UNCHANGED <<clock, dirFiles, metaFile, nops, addLog, removed>>

\* let session = get_luci_session(&client, &device).await?; in restore_backup
RstAuth(p) ==
    /\ At(p, "rst_auth")
    /\ \E io \in AuthOutcomes :
          LET pr == get_luci_session(procs[p], io)
          IN  IF io = "token"
              THEN Become(p, [pr EXCEPT !.pc = "rst_upload"])
              ELSE Become(p, FailRestore(pr, "auth", AuthError(io)))
    /\ UNCHANGED <<clock, dirFiles, metaFile, nops, addLog, removed>>

\* What restore_backup returns on the LuCI branch once it has a session,
\* given what the upload and the reboot request came to: each is followed by
\* `.send().await?` and nothing else.
luci_restore_report(up, rb) ==
    IF up = "send_err" THEN SendError("restore")
    ELSE IF rb = "send_err" THEN SendError("reboot")
    ELSE <<"ok">>

\* The multipart POST of the archive to .../flashops/restore.
RstUpload(p) ==
    /\ At(p, "rst_upload")
    /\ \E resp \in Responses :
          LET pr == [procs[p] EXCEPT !.reqs = Append(@, "upload"),
                                     !.upResp = resp]
          IN  IF resp = "send_err"
              THEN Become(p, FailRestore(pr, "upload",
                                         luci_restore_report(resp, "none")))
              ELSE Become(p, [pr EXCEPT !.pc = "rst_reboot"])
    /\ UNCHANGED <<clock, dirFiles, metaFile, nops, addLog, removed>>

\* The POST to .../system/reboot, then the success message.
RstReboot(p) ==
    /\ At(p, "rst_reboot")
    /\ \E resp \in Responses :
          LET pr  == [procs[p] EXCEPT !.reqs = Append(@, "reboot"),
                                      !.rbResp = resp]
              rep == luci_restore_report(pr.upResp, resp)
          IN  IF resp = "send_err"
              THEN Become(p, FailRestore(pr, "reboot", rep))
              ELSE Become(p, [pr EXCEPT !.result = "ok", !.report = rep,
                                        !.pc = "done"])
    /\ UNCHANGED <<clock, dirFiles, metaFile, nops, addLog, removed>>

\* ------------------------------------------------------------ specification
\* A new invocation takes the lowest free process.
FirstIdle(p) ==
    /\ At(p, "idle")
    /\ \A q \in Procs : At(q, "idle") => p <= q

\* The steps of ConfigManager::add_backup and the exit of an invocation.
AddStep(p) ==
    \/ AddLoad(p)
    \/ AddInfo(p)
    \/ AddRename(p)
    \/ AddPush(p)
    \/ AddSave(p)
    \/ Drop(p)
    \/ Return(p)

\* The program as main.rs runs it: `backup create` calls create_backup with
\* use_ubus = false, `backup remove` calls remove_backup; one invocation at
\* a time, a new one starting when none is running.
Next ==
    \E p \in Procs :
        \/ AllIdle /\ FirstIdle(p) /\ nops < MaxOps /\ CreateStart(p, FALSE)
        \/ AllIdle /\ FirstIdle(p) /\ nops < MaxOps /\ RemoveStart(p)
        \/ LuciAuth(p)
        \/ LuciGet(p)
        \/ LuciWrite(p)
        \/ AddStep(p)
        \/ RemLoad(p)
        \/ RemGet(p)
        \/ RemDelete(p)
        \/ RemSave(p)

Spec == Init /\ [][Next]_vars

\* create_backup called with use_ubus = true, one call at a time.
NextUbus ==
    \E p \in Procs :
        \/ AllIdle /\ FirstIdle(p) /\ nops < MaxUbusOps /\ CreateStart(p, TRUE)
        \/ UbusOpen(p)
        \/ Section(p)
        \/ Board(p)
        \/ ArchiveFinish(p)
        \/ SyncAll(p)
        \/ AddStep(p)

SpecUbus == Init /\ [][NextUbus]_vars

\* Two invocations of `backup create` as separate processes: the second may
\* start while the first is running, and their steps interleave.  Nothing
\* in the source locks metadata.json.
NextConc ==
    \E p \in Procs :
        \/ FirstIdle(p) /\ nops < MaxConcOps /\ CreateStart(p, FALSE)
        \/ LuciAuth(p)
        \/ LuciGet(p)
        \/ LuciWrite(p)
        \/ AddStep(p)

SpecConc == Init /\ [][NextConc]_vars

\* The steps of restore_backup.
RestoreStep(p) ==
    \/ RstLoad(p)
    \/ RstRead(p)
    \/ RstLogin(p)
    \/ RstRpc(p)
    \/ RstAuth(p)
    \/ RstUpload(p)
    \/ RstReboot(p)

\* create over LuCI, remove, and restore_backup called under either
\* protocol, one invocation at a time.
NextRestore ==
    \E p \in Procs :
        \/ AllIdle /\ FirstIdle(p) /\ nops < MaxOps /\ CreateStart(p, FALSE)
        \/ AllIdle /\ FirstIdle(p) /\ nops < MaxOps /\ RemoveStart(p)
        \/ AllIdle /\ FirstIdle(p) /\ nops < MaxOps
              /\ \E use_ubus \in BOOLEAN : RestoreStart(p, use_ubus)
        \/ LuciAuth(p)
        \/ LuciGet(p)
        \/ LuciWrite(p)
        \/ AddStep(p)
        \/ RemLoad(p)
        \/ RemGet(p)
        \/ RemDelete(p)
        \/ RemSave(p)
        \/ RestoreStep(p)

SpecRestore == Init /\ [][NextRestore]_vars


\* ================================================================== claims
Range(seq) == {seq[i] : i \in 1..Len(seq)}

\* No invocation is in the middle of an operation.
Quiet == \A p \in Procs : procs[p].pc \in {"idle", "done"}

\* The records of the persisted catalog, as list would return them.
Persisted == IF list_backups.ok THEN list_backups.backups ELSE << >>

Finished(p, op) == procs[p].pc = "done" /\ procs[p].op = op

\* C1: whenever no add or remove is under way, every record of the
\* persisted catalog names a file that is present in the backup directory.
C1_CatalogFilesExist ==
    Quiet => \A r \in Range(Persisted) : r.filename \in DOMAIN dirFiles

\* C2: a remove of a record whose entry and file were both there ends, also
\* when it fails, with the entry and the file both gone or both still there.
C2_RemoveAllOrNothing ==
    \A p \in Procs :
        LET pr == procs[p]
            id == pr.backup_id
        IN  ( /\ Finished(p, "remove")
              /\ pr.preMeta.state = "valid"
              /\ Position(pr.preMeta.backups, id) # 0
              /\ Filename(id) \in DOMAIN pr.preDir )
            => ( (Position(Persisted, id) # 0)
                    <=> (Filename(id) \in DOMAIN dirFiles) )

\* C3: a remove that fails at the deletion of the backing file returns an
\* error and leaves metadata.json exactly as it was before the call.
C3_DeleteFailureKeepsCatalog ==
    \A p \in Procs :
        (Finished(p, "remove") /\ procs[p].failedAt = "delete")
        => (procs[p].result = "err" /\ metaFile = procs[p].preMeta)

\* C3 witness: a remove of a catalogued record has failed at the deletion.
C3_Witness ==
    \E p \in Procs :
        /\ Finished(p, "remove")
        /\ procs[p].failedAt = "delete"
        /\ Position(Persisted, procs[p].backup_id) # 0

\* C4: add_backup appends the record in memory only after the archive has
\* been moved, persists only after it has appended, and every record that a
\* step newly puts into the persisted catalog has its backing file in the
\* backup directory before that step.
C4_MoveAppendPersist ==
    [][ /\ \A p \in Procs :
            /\ procs[p].pc \in {"add_push", "add_save"}
                  => /\ ~procs[p].tmp.linked
                     /\ procs[p].info[1].filename \in DOMAIN dirFiles
            /\ procs[p].pc = "add_save"
                  => procs[p].meta[Len(procs[p].meta)] = procs[p].info[1]
            /\ procs[p].pc \in {"add_load", "add_info", "add_rename", "add_push"}
                  => procs[p].info \notin {<<r>> : r \in Range(Persisted)}
        /\ \A r \in Range(Persisted') \ Range(Persisted) :
            /\ r.filename \in DOMAIN dirFiles
            /\ dirFiles[r.filename].ino = r.created_at ]_vars

\* C4 witness: an add has persisted its record and the file is there.
C4_Witness ==
    \E p \in Procs :
        /\ Finished(p, "create")
        /\ procs[p].result = "ok"
        /\ procs[p].info[1] \in Range(Persisted)
        /\ procs[p].info[1].filename \in DOMAIN dirFiles

\* C5: no two records of the persisted catalog share an id or a filename,
\* and no two successful adds produced the same id.
C5_IdsUnique ==
    /\ \A i, j \in 1..Len(Persisted) :
          i # j => /\ Persisted[i].id # Persisted[j].id
                   /\ Persisted[i].filename # Persisted[j].filename
    /\ \A i, j \in 1..Len(addLog) : i # j => addLog[i].id # addLog[j].id

\* C6: after a successful remove(id), get(id) finds nothing and the file
\* that backed the record is not in the backup directory.
C6_RemoveThenGet ==
    \A p \in Procs :
        (Finished(p, "remove") /\ procs[p].result = "ok")
        => /\ show_backup(procs[p].backup_id) = << >>
           /\ procs[p].info[1].filename \notin DOMAIN dirFiles

\* C7: after a successful add, get with the id of the returned record finds
\* a record with the same id, filename and size.
C7_AddThenGet ==
    \A p \in Procs :
        (Finished(p, "create") /\ procs[p].result = "ok")
        => LET made == procs[p].info[1]
               got  == show_backup(made.id)
           IN  /\ got # << >>
               /\ got[1].id = made.id
               /\ got[1].filename = made.filename
               /\ got[1].size = made.size

\* C8: from no persisted catalog, as long as no remove has deleted anything,
\* what list returns is the records of the successful adds in the order of
\* the adds, and list does return after an add has succeeded.
C8_ListAfterAdds ==
    ~removed =>
        /\ list_backups.ok => list_backups.backups = addLog
        /\ \A p \in Procs :
              (Finished(p, "create") /\ procs[p].result = "ok")
              => (list_backups.ok /\ Len(list_backups.backups) = Len(addLog))

\* C8 witness: two adds have succeeded and list returns their two records.
C8_Witness ==
    /\ ~removed
    /\ Len(addLog) >= 2
    /\ list_backups.ok
    /\ \E p \in Procs : Finished(p, "create") /\ procs[p].result = "ok"

\* The labels of add_backup.
AddLabels == {"add_load", "add_info", "add_rename", "add_push", "add_save"}

\* C9: over the remote shell, the gzip encoder holds nothing and is closed
\* when add_backup runs, and the size recorded is the size of the file that
\* backs the record when create is over.
C9_ArchiveFinalizedBeforeAdd ==
    \A p \in Procs :
        procs[p].use_ubus =>
            /\ procs[p].pc \in AddLabels => ~procs[p].enc.open
            /\ (Finished(p, "create") /\ procs[p].result = "ok")
                  => procs[p].info[1].size
                        = dirFiles[procs[p].info[1].filename].size

\* The reads of one collection, in the order of the source.
AllReads == config_files \o <<"system_info.json">>

\* The reads made so far are the first reads of AllReads, in that order.
TriedInOrder(p) ==
    /\ Len(procs[p].tried) <= Len(AllReads)
    /\ procs[p].tried = SubSeq(AllReads, 1, Len(procs[p].tried))

\* The collection of p got past its last read.
PastReads(p) ==
    \/ procs[p].pc \in {"finish", "sync"} \cup AddLabels
    \/ procs[p].failedAt \in {"finish", "sync", "load", "stat", "move", "persist"}
    \/ procs[p].result = "ok"

\* C10 as claimed: the reads are made in order and no failure of a read, of
\* any kind, ends create.
C10_AnyReadFailureOnlySkips ==
    \A p \in Procs :
        procs[p].use_ubus =>
            /\ TriedInOrder(p)
            /\ procs[p].lastOut \in ReadErrors \cup ReadSkips
                  => procs[p].failedAt # "read"

\* C10 amended: the reads are made in order; a channel that cannot be
\* opened, a non-zero exit status and empty output only skip the read, and a
\* collection that is not ended by an error makes all six reads; an error of
\* exec, read_to_string, wait_close or exit_status ends create at that read.
C10_SkipsAndErrors ==
    \A p \in Procs :
        procs[p].use_ubus =>
            /\ TriedInOrder(p)
            /\ procs[p].lastOut \in ReadSkips
                  => procs[p].failedAt \notin {"read", "append"}
            /\ procs[p].lastOut \in ReadErrors
                  <=> procs[p].failedAt = "read"
            /\ procs[p].lastOut \in ReadErrors
                  => (procs[p].result = "err" /\ procs[p].pc \in {"drop", "done"})
            /\ PastReads(p) => procs[p].tried = AllReads
            /\ procs[p].pc = "section"
                  => Len(procs[p].tried) = procs[p].idx - 1

\* C10 witness: a create that skipped system, wireless, dhcp and the
\* identity file, still made all six reads and succeeded.
C10_Witness ==
    \E p \in Procs :
        /\ Finished(p, "create")
        /\ procs[p].use_ubus
        /\ procs[p].result = "ok"
        /\ procs[p].tried = AllReads
        /\ procs[p].entries = <<"network", "firewall">>


\* The units of a finished archive with n entries.
ArchiveLen(n) == n * (TarHeaderLen + ContentLen) + TarFooterLen + GzTrailerLen

\* C11: a create over the remote shell that succeeds has appended exactly
\* the reads that came back with exit status 0 and non-empty output, the
\* sections in the order of config_files and the identity file last; the
\* file that backs its record holds that whole archive when create is over;
\* and the persisted catalog is the catalog before the call with one record
\* more, whose backup_method is "ubus".  A create in which no step returns an
\* error does succeed, whatever the reads came back with.
C11_ArchiveAndRecord ==
    \A p \in Procs :
        (Finished(p, "create") /\ procs[p].use_ubus) =>
            /\ procs[p].failedAt = "none" => procs[p].result = "ok"
            /\ procs[p].result = "ok" =>
                  LET made == procs[p].info[1]
                  IN  /\ procs[p].entries = procs[p].good
                      /\ \A i \in 1..Len(procs[p].entries) :
                            procs[p].entries[i] = "system_info.json"
                               => i = Len(procs[p].entries)
                      /\ Range(procs[p].entries) \subseteq Range(AllReads)
                      /\ made.filename \in DOMAIN dirFiles
                      /\ dirFiles[made.filename].ino = made.created_at
                      /\ dirFiles[made.filename].size
                            = ArchiveLen(Len(procs[p].entries))
                      /\ procs[p].preMeta.state # "corrupt"
                      /\ Persisted = procs[p].preMeta.backups \o <<made>>
                      /\ made.backup_method = "ubus"

\* C11 witness: a create over the remote shell in which no read came back
\* with content has succeeded, with an archive of no entries and one record.
C11_Witness ==
    \E p \in Procs :
        /\ Finished(p, "create")
        /\ procs[p].use_ubus
        /\ procs[p].result = "ok"
        /\ procs[p].tried = AllReads
        /\ procs[p].good = << >>
        /\ procs[p].entries = << >>
        /\ Len(Persisted) = 1


\* C12: a create that fails, at whatever step, leaves metadata.json as it
\* was before the call and the backup directory with the files it had.
C12_CreateAllOrNothing ==
    \A p \in Procs :
        (Finished(p, "create") /\ procs[p].result = "err")
        => (metaFile = procs[p].preMeta /\ dirFiles = procs[p].preDir)


\* The number of requests of one kind among the requests an invocation sent.
Count(reqs, kind) == Cardinality({i \in 1..Len(reqs) : reqs[i] = kind})

\* The responses with which a request has failed.
FailedResponses == {"send_err", "http_err"}

\* C13: a restore over LuCI whose upload succeeded and whose reboot request
\* failed returns something that no restore whose upload failed returns, and
\* it has sent one upload and one reboot request.
C13_RebootFailureDistinct ==
    \A p \in Procs :
        ( /\ Finished(p, "restore")
          /\ ~procs[p].use_ubus
          /\ procs[p].upResp = "ok"
          /\ procs[p].rbResp \in FailedResponses )
        => /\ \A up \in FailedResponses, rb \in Responses \cup {"none"} :
                 procs[p].report # luci_restore_report(up, rb)
           /\ Count(procs[p].reqs, "upload") = 1
           /\ Count(procs[p].reqs, "reboot") = 1

\* C15: a restore of an id that the catalog does not hold, or of a record
\* whose file is not in the backup directory or cannot be read, fails without
\* a request to the device; no request is sent before the archive is read.
C15_NoRequestWithoutArchive ==
    \A p \in Procs :
        procs[p].op = "restore" =>
            /\ ( /\ procs[p].pc = "done"
                 /\ \/ Position(procs[p].preMeta.backups, procs[p].backup_id) = 0
                    \/ Filename(procs[p].backup_id) \notin DOMAIN procs[p].preDir
                    \/ procs[p].failedAt \in {"not_found", "read_file"} )
               => (procs[p].result = "err" /\ procs[p].reqs = << >>)
            /\ procs[p].reqs # << >> => procs[p].data # << >>
            /\ procs[p].pc \in {"rst_load", "rst_read"} => procs[p].reqs = << >>

\* C15 witness: a restore of a catalogued record whose file is gone has
\* failed at the read of the file.
C15_Witness ==
    \E p \in Procs :
        /\ Finished(p, "restore")
        /\ Position(Persisted, procs[p].backup_id) # 0
        /\ Filename(procs[p].backup_id) \notin DOMAIN dirFiles
        /\ procs[p].failedAt = "read_file"
        /\ procs[p].reqs = << >>

\* C16: a create over LuCI or a restore sends at most one authentication
\* request, and exactly one when it succeeds; every other request it sends
\* comes after an authentication that returned a token; and when the
\* authentication returns no token the operation fails with no other request
\* sent and with metadata.json and the backup directory as before the call.
C16_AuthOnceAndFirst ==
    \A p \in Procs :
        (procs[p].op \in {"create", "restore"} /\ ~(procs[p].op = "create"
                                                     /\ procs[p].use_ubus)) =>
            /\ Count(procs[p].reqs, "auth") <= 1
            /\ procs[p].result = "ok" => Count(procs[p].reqs, "auth") = 1
            /\ Len(procs[p].reqs) > Count(procs[p].reqs, "auth")
                  => (procs[p].reqs[1] = "auth" /\ procs[p].auth = "token")
            /\ procs[p].auth \in {"no_token", "send_err"}
                  => /\ procs[p].result = "err"
                     /\ procs[p].reqs = <<"auth">>
                     /\ metaFile = procs[p].preMeta
                     /\ dirFiles = procs[p].preDir

\* C16 witness: a restore that had read its archive has ended on an
\* authentication response without a token, with that one request sent.
C16_Witness ==
    \E p \in Procs :
        /\ procs[p].pc = "done"
        /\ procs[p].op = "restore"
        /\ procs[p].auth = "no_token"
        /\ procs[p].reqs = <<"auth">>
        /\ procs[p].data # << >>


\* The catalog add_backup loaded, for an invocation that has pushed its record.
Loaded(p) == SubSeq(procs[p].meta, 1, Len(procs[p].meta) - 1)

\* Both invocations have ended a create with success.
BothCreated(p, q) ==
    /\ p # q
    /\ Finished(p, "create") /\ procs[p].result = "ok"
    /\ Finished(q, "create") /\ procs[q].result = "ok"

\* C14: when two creates that ran as separate processes have both loaded the
\* same catalog and both reported success, the persisted catalog is the one
\* written last: it lacks the record of one of them, while the archive files
\* of both are in the backup directory.
C14_LostUpdate ==
    \A p, q \in Procs :
        (BothCreated(p, q) /\ Loaded(p) = Loaded(q)) =>
            /\ Persisted \in {procs[p].meta, procs[q].meta}
            /\ \/ procs[p].info[1] \notin Range(Persisted)
               \/ procs[q].info[1] \notin Range(Persisted)
            /\ procs[p].info[1].filename \in DOMAIN dirFiles
            /\ procs[q].info[1].filename \in DOMAIN dirFiles

\* C14 witness: two creates with different ids loaded the same catalog and
\* succeeded; both files are there and the catalog holds one record.
C14_Witness ==
    \E p, q \in Procs :
        /\ BothCreated(p, q)
        /\ Loaded(p) = Loaded(q)
        /\ procs[p].info[1].id # procs[q].info[1].id
        /\ {procs[p].info[1].filename, procs[q].info[1].filename}
              \subseteq DOMAIN dirFiles
        /\ Len(Persisted) = Len(Loaded(p)) + 1
        /\ procs[p].info[1] \notin Range(Persisted)

====
